---- MODULE Spec2Model ----
(***************************************************************************)
(* Model of setup-sidecar.mjs: the device-pairing sidecar.                 *)
(*                                                                         *)
(* One step of the model is one task of the Node.js event loop: a message  *)
(* event with every registered listener and the promise continuations the  *)
(* listeners resume (microtasks drain before the next task), a timer       *)
(* callback, the open or error event of the socket, or the completion of   *)
(* an asynchronous crypto call.  Time is a digital clock: Tick lets        *)
(* TickMs pass, and a timer that has run down fires before time passes     *)
(* again.                                                                  *)
(*                                                                         *)
(* The gateway is the environment.  It sends frames of the wire protocol   *)
(* (responses to any request id, with or without payload; the two events   *)
(* with their payload objects; unknown events; request frames) and text    *)
(* that is not JSON.                                                       *)
(***************************************************************************)
EXTENDS Integers, Sequences, FiniteSets, TLC

(* ---- bounds of the model ---- *)
MaxReqId == 6          \* requests one run may send
MaxPending == 2        \* length of a device.pair.list answer
TickMs == 5000         \* granularity of the clock
MaxScanReqId == 8      \* requests one run of ScanSpec may send

PairOrder == <<"p1", "p2">>        \* requestIds of pairing requests
PairIds == {PairOrder[i] : i \in 1..Len(PairOrder)}
Nonces == {"n1", "n2"}             \* nonces of connect.challenge
DeviceIds == {"dev-a"}             \* sha256(publicKey) of the generated key
SignTimes == {1700}                \* Date.now(), in a unit that fits an integer
Errors == {"denied"}               \* error payload of an ok:false response
GatewayToken == "tok"              \* OPENCLAW_GATEWAY_TOKEN when set

(* ---- program constants (milliseconds) ---- *)
ChallengeTimeoutMs == 15000
ConnectTimeoutMs == 15000
DefaultResTimeoutMs == 15000
ListTimeoutMs == 10000
ApproveTimeoutMs == 10000
ScanIntervalMs == 30000
WindowMs == 120000     \* the fixed window of bounded-window mode

VARIABLES
  token,            \* process.env.OPENCLAW_GATEWAY_TOKEN ("" when unset)
  pc,               \* where main() is suspended
  exit,             \* process.exit: [done, code, cause]
  device,           \* device.deviceId ("" before generateDeviceIdentity)
  wsState,          \* "none", "connecting", "open", "closed"
  closeCalled,      \* ws.close() was called
  reqId,            \* the counter of nextId
  reqCap,           \* model: the number of requests this run may send
  sent,             \* the frames given to ws.send, in order
  waits,            \* waits[i]: the promise of waitForRes(ws, "req-i", ..)
  chal,             \* challengePromise: the promise of waitForEvent
  signedAtMs,       \* signedAtMs of main (0 before it is taken)
  payloadParams,    \* the argument of buildDeviceAuthPayload
  payload,          \* the string of buildDeviceAuthPayload that was signed
  pairingListener,  \* pairingListener is registered on "message"
  scans,            \* the activations of approvePending, in start order
  interval,         \* the timer of setInterval(approvePending, 30000)
  windowMs,         \* configuration: the expiry of the pairing window in
                    \* bounded-window mode, 0 in persistent-daemon mode
  window,           \* the timer of the pairing window
  serverPending,    \* gateway: the pairing requests pending there
  chalSeen,         \* observer: nonce of the first connect.challenge frame
                    \* delivered in the 15 s window ("" when none)
  firstMatch,       \* observer: per request, the first response frame with
                    \* its id delivered before its timeout
  pairEvents        \* observer: the requestIds of the device.pair.requested
                    \* frames delivered since main registered the pairing
                    \* listener, in arrival order

vars == <<token, pc, exit, device, wsState, closeCalled, reqId, sent, waits,
          chal, signedAtMs, payloadParams, payload, pairingListener, scans,
          interval, windowMs, window, serverPending, chalSeen, firstMatch,
          reqCap, pairEvents>>

(* ---- small helpers ---- *)
Max(a, b) == IF a > b THEN a ELSE b

RECURSIVE SeqsUpTo(_, _)
\* all sequences over S of length 1..n
SeqsUpTo(S, n) ==
  IF n = 0 THEN {}
  ELSE LET shorter == SeqsUpTo(S, n - 1)
       IN  {<<x>> : x \in S} \cup shorter
           \cup {Append(s, x) : s \in shorter, x \in S}

(* ---- timers ---- *)
NoTimer == [st |-> "none", ms |-> 0]
Armed(ms) == [st |-> "armed", ms |-> ms]
Due(t) == t.st = "armed" /\ t.ms = 0
Running(t) == t.st = "armed" /\ t.ms > 0
\* clearTimeout: no effect on a timer that has fired
ClearTimeout(t) == IF t.st = "armed" THEN [st |-> "cleared", ms |-> 0] ELSE t
Fire(t) == [st |-> "fired", ms |-> 0]
Elapse(t) == IF t.st = "armed" THEN [t EXCEPT !.ms = Max(0, t.ms - TickMs)] ELSE t

(* ---- payloads of response frames ---- *)
\* present = FALSE: the frame has no payload (undefined)
\* hasScopes: payload.auth.scopes exists; scopes: that array
\* pending: payload.pending ([] when the field is missing)
NoPayload ==
  [present |-> FALSE, hasScopes |-> FALSE, scopes |-> <<>>, pending |-> <<>>]
EmptyObject ==
  [present |-> TRUE, hasScopes |-> FALSE, scopes |-> <<>>, pending |-> <<>>]
Hello(scopes) ==
  [present |-> TRUE, hasScopes |-> TRUE, scopes |-> scopes, pending |-> <<>>]
PendingList(p) ==
  [present |-> TRUE, hasScopes |-> FALSE, scopes |-> <<>>, pending |-> p]

HelloPayloads == {EmptyObject, Hello(<<>>), Hello(<<"operator.admin">>)}
ListPayloads == {PendingList(p) : p \in SeqsUpTo(PairIds, MaxPending)}

\* the payloads a typed gateway answers a method with (a response without
\* payload where the code reads a field of it)
PayloadsFor(method) ==
  CASE method = "connect" -> {NoPayload} \cup HelloPayloads
    [] method = "config.get" -> {NoPayload, EmptyObject}
    [] method = "device.pair.list" -> {NoPayload, EmptyObject} \cup ListPayloads
    [] OTHER -> {EmptyObject}

(* ---- frames on the wire ---- *)
\* json = FALSE: text that JSON.parse rejects
RawFrame(json, type, id, ok, pl, err, event, nonce, requestId) ==
  [json |-> json, type |-> type, id |-> id, ok |-> ok, payload |-> pl,
   error |-> err, event |-> event, nonce |-> nonce, requestId |-> requestId]
ResFrame(id, ok, pl, err) ==
  RawFrame(TRUE, "res", id, ok, pl, err, "", "", "")
EventFrame(event, nonce, requestId) ==
  RawFrame(TRUE, "event", 0, FALSE, NoPayload, "", event, nonce, requestId)
ReqFrame == RawFrame(TRUE, "req", 1, FALSE, NoPayload, "", "", "", "")
Garbage == RawFrame(FALSE, "", 0, FALSE, NoPayload, "", "", "", "")
Null == RawFrame(TRUE, "null", 0, FALSE, NoPayload, "", "", "", "")

\* JSON with an unrecognised type that otherwise looks like the response to
\* request id and like both events the sidecar listens for
Untyped(id, event) ==
  RawFrame(TRUE, "bogus", id, TRUE, EmptyObject, "", event, "n1", "p1")

\* malformed frames: text that is not JSON, the JSON text null, and JSON
\* values without a recognised type
Malformed ==
  {Garbage, Null, Untyped(0, "connect.challenge")}
  \cup {Untyped(id, "device.pair.requested") :
          id \in {j \in 1..reqId : waits[j].listening}}

\* the pairing requestIds the sidecar has met so far
KnownPairs ==
  {sent[i].requestId : i \in 1..Len(sent)}
  \cup UNION {{scans[k].pend[j] : j \in 1..Len(scans[k].pend)}
              : k \in 1..Len(scans)}

RECURSIVE InOrder(_, _)
\* ids not in `known` first occur in p in the order of PairOrder
InOrder(p, known) ==
  IF Len(p) = 0 THEN TRUE
  ELSE IF p[1] \in known THEN InOrder(Tail(p), known)
  ELSE /\ \A i \in 1..Len(PairOrder) :
            PairOrder[i] = p[1] =>
              \A j \in 1..(i - 1) : PairOrder[j] \in known
       /\ InOrder(Tail(p), known \cup {p[1]})

\* What the gateway may deliver in the current state.  A response whose id
\* no registered listener waits for reaches the same listeners whatever the
\* id is: the id reqId + 1, which no request carries yet, stands for them
\* all.  Nonces and pairing requestIds are opaque: they are named in the
\* order the sidecar first meets them.
Frames ==
  UNION {{ResFrame(i, TRUE, p, "") :
            p \in {q \in PayloadsFor(sent[i].method) :
                     InOrder(q.pending, KnownPairs)}}
         \cup {ResFrame(i, FALSE, NoPayload, e) : e \in Errors}
         : i \in {j \in 1..reqId : waits[j].listening}}
  \cup {ResFrame(reqId + 1, FALSE, NoPayload, e) : e \in Errors}
  \cup {ResFrame(reqId + 1, TRUE, EmptyObject, "")}
  \cup {EventFrame("connect.challenge", n, "") :
          n \in IF chalSeen = "" THEN {"n1"} ELSE Nonces}
  \cup {EventFrame("device.pair.requested", "", r) :
          r \in {q \in PairIds : InOrder(<<q>>, KnownPairs)}}
  \cup {EventFrame("tick", "", ""), ReqFrame}
  \cup Malformed

(* ---- helpers of setup-sidecar.mjs ---- *)
\* a counter that wraps around
nextIdWraps(n) == (n % 2) + 1

\* ++reqId; the id "req-n" is modelled by its number n
nextId(n) == n + 1

\* JSON.parse of the frame's text; null when it throws
parseWsMessage(ev) == IF ev.json THEN ev ELSE Null

\* a promise settles once: resolve and reject do nothing afterwards
Resolve(w, v) ==
  IF w.state = "pending" THEN [w EXCEPT !.state = "resolved", !.value = v]
  ELSE w
Reject(w, reason, err) ==
  IF w.state = "pending"
  THEN [w EXCEPT !.state = "rejected", !.reason = reason, !.error = err]
  ELSE w

Settled(w) == w.state # "pending"
Failed(w) == w.state = "rejected"

\* the promise waitForRes returns: timer armed, onMsg registered
waitForRes(timeoutMs, by, scan) ==
  [state |-> "pending", value |-> NoPayload, reason |-> "", error |-> "",
   timer |-> Armed(timeoutMs), listening |-> TRUE, by |-> by, scan |-> scan]

\* onMsg of waitForRes without the test of msg.ok
onMsgResIgnoresOk(w, id, ev) ==
  LET msg == parseWsMessage(ev) IN
  IF msg = Null THEN w
  ELSE IF msg.type = "res" /\ msg.id = id
       THEN Resolve([w EXCEPT !.timer = ClearTimeout(w.timer),
                              !.listening = FALSE],
                    msg.payload)
       ELSE w

\* onMsg of waitForRes without the test of msg.id
onMsgResAnyId(w, id, ev) ==
  LET msg == parseWsMessage(ev) IN
  IF msg = Null THEN w
  ELSE IF msg.type = "res"
       THEN LET u == [w EXCEPT !.timer = ClearTimeout(w.timer),
                               !.listening = FALSE]
            IN  IF msg.ok THEN Resolve(u, msg.payload)
                ELSE Reject(u, "rpc", msg.error)
       ELSE w

\* onMsg of waitForRes without the test of msg.type
onMsgResAnyType(w, id, ev) ==
  LET msg == parseWsMessage(ev) IN
  IF msg = Null THEN w
  ELSE IF msg.id = id
       THEN LET u == [w EXCEPT !.timer = ClearTimeout(w.timer),
                               !.listening = FALSE]
            IN  IF msg.ok THEN Resolve(u, msg.payload)
                ELSE Reject(u, "rpc", msg.error)
       ELSE w

\* onMsg of waitForRes(ws, id): the promise after the listener saw ev
onMsgRes(w, id, ev) ==
  LET msg == parseWsMessage(ev) IN
  IF msg = Null THEN w
  ELSE IF msg.type = "res" /\ msg.id = id
       THEN LET u == [w EXCEPT !.timer = ClearTimeout(w.timer),
                               !.listening = FALSE]
            IN  IF msg.ok THEN Resolve(u, msg.payload)
                ELSE Reject(u, "rpc", msg.error)
       ELSE w

\* the timer callback of waitForRes and of waitForEvent
onTimeout(w) == Reject([w EXCEPT !.timer = Fire(w.timer)], "timeout", "")

\* the payload of an event frame
NoEvent == [nonce |-> "", requestId |-> ""]
eventPayload(msg) == [nonce |-> msg.nonce, requestId |-> msg.requestId]

\* the promise waitForEvent returns
waitForEvent(timeoutMs) ==
  [state |-> "pending", value |-> NoEvent, reason |-> "", error |-> "",
   timer |-> Armed(timeoutMs), listening |-> TRUE]

\* onMsg of waitForEvent that stays registered and takes every matching event
onMsgEventOverwrites(w, eventName, ev) ==
  LET msg == parseWsMessage(ev) IN
  IF msg = Null THEN w
  ELSE IF msg.type = "event" /\ msg.event = eventName
       THEN [w EXCEPT !.timer = ClearTimeout(w.timer),
                      !.state = "resolved", !.value = eventPayload(msg)]
       ELSE w

\* onMsg of waitForEvent(ws, eventName)
onMsgEvent(w, eventName, ev) ==
  LET msg == parseWsMessage(ev) IN
  IF msg = Null THEN w
  ELSE IF msg.type = "event" /\ msg.event = eventName
       THEN Resolve([w EXCEPT !.timer = ClearTimeout(w.timer),
                              !.listening = FALSE],
                    eventPayload(msg))
       ELSE w

\* challengePromise before the socket exists
NoChallenge ==
  [state |-> "none", value |-> NoEvent, reason |-> "", error |-> "",
   timer |-> NoTimer, listening |-> FALSE]

\* the challenge wait with its listener not yet on the socket
challengePromiseUnregistered ==
  [waitForEvent(ChallengeTimeoutMs) EXCEPT !.listening = FALSE]

\* const challengePromise = waitForEvent(ws, "connect.challenge", 15_000),
\* taken right after new WebSocket and before the wait for "open"
challengePromise == waitForEvent(ChallengeTimeoutMs)

(* ---- device auth payload ---- *)
RECURSIVE Join(_, _)
\* Array.prototype.join
Join(seq, sep) ==
  IF Len(seq) = 0 THEN ""
  ELSE IF Len(seq) = 1 THEN seq[1]
  ELSE seq[1] \o sep \o Join(Tail(seq), sep)

RequestedScopes == <<"operator.admin", "operator.pairing", "operator.approvals">>

\* buildDeviceAuthPayload pushing params.nonce || "" whatever the version
authFieldsAlwaysNonce(params) ==
  LET version == IF params.nonce # "" THEN "v2" ELSE "v1"
      base == <<version, params.deviceId, params.clientId, params.clientMode,
                params.role, Join(params.scopes, ","),
                ToString(params.signedAtMs), params.token>>
  IN  Append(base, params.nonce)

\* the array `base` of buildDeviceAuthPayload; nonce "" stands for no nonce
authFields(params) ==
  LET version == IF params.nonce # "" THEN "v2" ELSE "v1"
      base == <<version, params.deviceId, params.clientId, params.clientMode,
                params.role, Join(params.scopes, ","),
                ToString(params.signedAtMs), params.token>>
  IN  IF version = "v2" THEN Append(base, params.nonce) ELSE base

buildDeviceAuthPayload(params) == Join(authFields(params), "|")

\* no payload built yet
NoParams ==
  [deviceId |-> "", clientId |-> "", clientMode |-> "", role |-> "",
   scopes |-> <<>>, signedAtMs |-> 0, token |-> "", nonce |-> ""]

\* the object main passes to buildDeviceAuthPayload
authParams(nonce, t) ==
  [deviceId |-> device, clientId |-> "gateway-client", clientMode |-> "backend",
   role |-> "operator", scopes |-> RequestedScopes, signedAtMs |-> t,
   token |-> token, nonce |-> nonce]

(* ---- the RPC correlator ---- *)
NoMatch == [seen |-> FALSE, ok |-> FALSE, payload |-> NoPayload, error |-> ""]

Request(id, method, requestId, nonce, deviceId, signedAt) ==
  [id |-> id, method |-> method, requestId |-> requestId, nonce |-> nonce,
   deviceId |-> deviceId, signedAt |-> signedAt, wire |-> wsState = "open"]

\* sendReq followed by waitForRes on the id it returned; wts and fm are the
\* promises and the observer as the rest of the step leaves them
SendReq(wts, fm, method, requestId, nonce, deviceId, signedAt, timeoutMs, by, scan) ==
  /\ reqId < reqCap
  /\ reqId' = nextId(reqId)
  /\ sent' = Append(sent, Request(nextId(reqId), method, requestId, nonce,
                                  deviceId, signedAt))
  /\ waits' = Append(wts, waitForRes(timeoutMs, by, scan))
  /\ firstMatch' = Append(fm, NoMatch)

NoSend(wts, fm) ==
  /\ reqId' = reqId
  /\ sent' = sent
  /\ waits' = wts
  /\ firstMatch' = fm

(* ---- process exit ---- *)
Alive == exit.done = FALSE
Exit(code, cause) ==
  /\ exit' = [done |-> TRUE, code |-> code, cause |-> cause]
  /\ pc' = "exited"

\* a throw inside main: main().catch logs and calls process.exit(0)
mainCatch == Exit(0, "mainCatch")

(* ---- main(): the handshake ---- *)
rpcVars == <<reqId, sent, waits, firstMatch>>
daemonVars == <<pairingListener, scans, interval, window>>

Init ==
  /\ token \in {"", GatewayToken}
  /\ pc = "start"
  /\ exit = [done |-> FALSE, code |-> 0, cause |-> ""]
  /\ device = ""
  /\ wsState = "none"
  /\ closeCalled = FALSE
  /\ reqId = 0
  /\ reqCap = MaxReqId
  /\ sent = <<>>
  /\ waits = <<>>
  /\ chal = NoChallenge
  /\ signedAtMs = 0
  /\ payloadParams = NoParams
  /\ payload = ""
  /\ pairingListener = FALSE
  /\ scans = <<>>
  /\ interval = NoTimer
  /\ windowMs = 0
  /\ window = NoTimer
  /\ serverPending = {}
  /\ chalSeen = ""
  /\ firstMatch = <<>>
  /\ pairEvents = <<>>

\* main up to `await generateDeviceIdentity()`: without a token, exit(0)
Start ==
  /\ Alive /\ pc = "start"
  /\ IF token = "" THEN Exit(0, "noToken") ELSE pc' = "genId" /\ exit' = exit
  /\ UNCHANGED <<token, windowMs, reqCap, device, wsState, closeCalled,
                 rpcVars, chal, signedAtMs, payloadParams, payload,
                 daemonVars, serverPending, chalSeen, pairEvents>>

\* generateDeviceIdentity resolves; main creates the socket, arms the
\* challenge wait, registers the error and open listeners and waits for open
Connect ==
  /\ Alive /\ pc = "genId"
  /\ \E d \in DeviceIds : device' = d
  /\ wsState' = "connecting"
  /\ chal' = challengePromise
  /\ pc' = "awaitOpen"
  /\ UNCHANGED <<token, windowMs, reqCap, exit, closeCalled, rpcVars,
                 signedAtMs, payloadParams, payload, daemonVars,
                 serverPending, chalSeen, pairEvents>>

\* main from the resolution of challengePromise to `await signPayload(..)`
mainGotChallenge(nonce) ==
  \E t \in SignTimes :
    /\ signedAtMs' = t
    /\ payloadParams' = authParams(nonce, t)
    /\ payload' = buildDeviceAuthPayload(authParams(nonce, t))
    /\ pc' = "signing"

\* main going on after the open wait without awaiting challengePromise
awaitChallengeSkipped(c) == mainGotChallenge(c.value.nonce)

\* main after the open wait: `await challengePromise`
awaitChallenge(c) ==
  IF c.state = "resolved" THEN mainGotChallenge(c.value.nonce)
  ELSE pc' = "awaitChallenge" /\ UNCHANGED <<signedAtMs, payloadParams,
                                             payload>>

\* the "open" event of the socket
WsOpen ==
  /\ Alive /\ wsState = "connecting"
  /\ wsState' = "open"
  /\ awaitChallenge(chal)
  /\ UNCHANGED <<token, windowMs, reqCap, exit, device, closeCalled, rpcVars,
                 chal, daemonVars, serverPending, chalSeen, pairEvents>>

\* signPayload resolves; main sends connect and waits for its response
SignDone ==
  /\ Alive /\ pc = "signing"
  /\ SendReq(waits, firstMatch, "connect", "", chal.value.nonce, device,
             signedAtMs, ConnectTimeoutMs, "main", 0)
  /\ pc' = "awaitConnect"
  /\ UNCHANGED <<token, windowMs, reqCap, exit, device, wsState, closeCalled,
                 chal, signedAtMs, payloadParams, payload, daemonVars,
                 serverPending, chalSeen, pairEvents>>

\* hello.auth?.scopes?.length
grantedLength(hello) == IF hello.hasScopes THEN Len(hello.scopes) ELSE 0

\* listResult?.pending || []
pendingOf(listResult) ==
  IF listResult.present THEN listResult.pending ELSE <<>>

\* approvePending up to its first await: the device.pair.list request
startScan(wts, fm) ==
  /\ SendReq(wts, fm, "device.pair.list", "", "", "", 0, ListTimeoutMs,
             "scan", Len(scans) + 1)
  /\ scans' = Append(scans, [pend |-> <<>>, idx |-> 0, cur |-> nextId(reqId),
                             done |-> FALSE])

\* main resumed by the connect response, without the check of the scopes
afterConnectNoScopeCheck(w, wts, fm) ==
  IF w.state = "rejected" \/ ~w.value.present
  THEN /\ mainCatch /\ NoSend(wts, fm)
       /\ UNCHANGED <<wsState, closeCalled, daemonVars>>
  ELSE /\ SendReq(wts, fm, "config.get", "", "", "", 0, DefaultResTimeoutMs,
                  "main", 0)
       /\ pc' = "awaitConfig"
       /\ UNCHANGED <<exit, wsState, closeCalled, daemonVars>>

\* main resumed by the connect response w
afterConnect(w, wts, fm) ==
  IF w.state = "rejected" \/ ~w.value.present
  THEN /\ mainCatch /\ NoSend(wts, fm)
       /\ UNCHANGED <<wsState, closeCalled, daemonVars>>
  ELSE IF grantedLength(w.value) = 0
  THEN /\ closeCalled' = TRUE /\ wsState' = "closed"
       /\ Exit(1, "authDenied") /\ NoSend(wts, fm)
       /\ UNCHANGED daemonVars
  ELSE /\ SendReq(wts, fm, "config.get", "", "", "", 0, DefaultResTimeoutMs,
                  "main", 0)
       /\ pc' = "awaitConfig"
       /\ UNCHANGED <<exit, wsState, closeCalled, daemonVars>>

\* main resumed by the config.get response, going on whatever it is
afterConfigIgnoresFailure(w, wts, fm) ==
  /\ SendReq(wts, fm, "health", "", "", "", 0, DefaultResTimeoutMs,
             "main", 0)
  /\ pc' = "awaitHealth"
  /\ UNCHANGED <<exit, wsState, closeCalled, daemonVars>>

\* main resumed by the config.get response w
afterConfig(w, wts, fm) ==
  IF w.state = "rejected" \/ ~w.value.present
  THEN /\ mainCatch /\ NoSend(wts, fm)
       /\ UNCHANGED <<wsState, closeCalled, daemonVars>>
  ELSE /\ SendReq(wts, fm, "health", "", "", "", 0, DefaultResTimeoutMs,
                  "main", 0)
       /\ pc' = "awaitHealth"
       /\ UNCHANGED <<exit, wsState, closeCalled, daemonVars>>

\* the mode of the daemon
persistent == windowMs = 0

\* bounded-window mode: the window starts when the daemon is entered
armWindow == window' = IF persistent THEN window ELSE Armed(windowMs)

\* the daemon starting with setInterval called before `await approvePending()`
afterHealthArmsInterval(w, wts, fm) ==
  IF w.state = "rejected"
  THEN /\ mainCatch /\ NoSend(wts, fm)
       /\ UNCHANGED <<wsState, closeCalled, daemonVars>>
  ELSE /\ pairingListener' = TRUE
       /\ startScan(wts, fm)
       /\ armWindow
       /\ interval' = Armed(ScanIntervalMs)
       /\ pc' = "firstScan"
       /\ UNCHANGED <<exit, wsState, closeCalled>>

\* main resumed by the health response w: the daemon starts
afterHealth(w, wts, fm) ==
  IF w.state = "rejected"
  THEN /\ mainCatch /\ NoSend(wts, fm)
       /\ UNCHANGED <<wsState, closeCalled, daemonVars>>
  ELSE /\ pairingListener' = TRUE
       /\ startScan(wts, fm)
       /\ armWindow
       /\ pc' = "firstScan"
       /\ UNCHANGED <<exit, wsState, closeCalled, interval>>

(* ---- the pairing daemon ---- *)
\* setInterval(approvePending, 30_000); bounded-window mode makes one pass
armInterval ==
  interval' = IF persistent THEN Armed(ScanIntervalMs) ELSE interval

\* approvePending of scan k at the head of its for loop, idx requests done
scanStep(k, pend, idx, wts, fm) ==
  IF idx < Len(pend)
  THEN /\ SendReq(wts, fm, "device.pair.approve", pend[idx + 1], "", "", 0,
                  ApproveTimeoutMs, "scan", k)
       /\ scans' = [scans EXCEPT ![k] = [pend |-> pend, idx |-> idx + 1,
                                         cur |-> nextId(reqId), done |-> FALSE]]
       /\ UNCHANGED <<pc, interval, window>>
  ELSE /\ NoSend(wts, fm)
       /\ scans' = [scans EXCEPT ![k] = [pend |-> pend, idx |-> idx,
                                         cur |-> 0, done |-> TRUE]]
       /\ window' = window
       /\ IF pc = "firstScan"
          THEN pc' = "daemon" /\ armInterval
          ELSE UNCHANGED <<pc, interval>>

\* approvePending without the inner try/catch: a failed approval ends the scan
scanResumeAbortsOnFailure(k, w, wts, fm) ==
  /\ IF scans[k].idx = 0
     THEN IF w.state = "resolved"
          THEN scanStep(k, pendingOf(w.value), 0, wts, fm)
          ELSE scanStep(k, <<>>, 0, wts, fm)
     ELSE IF Failed(w)
          THEN /\ NoSend(wts, fm)
               /\ scans' = [scans EXCEPT ![k].cur = 0, ![k].done = TRUE]
               /\ window' = window
               /\ IF pc = "firstScan"
                  THEN pc' = "daemon" /\ armInterval
                  ELSE UNCHANGED <<pc, interval>>
          ELSE scanStep(k, scans[k].pend, scans[k].idx, wts, fm)
  /\ UNCHANGED <<exit, wsState, closeCalled, pairingListener>>

\* approvePending without the outer try/catch: a failed list throws
scanResumeThrows(k, w, wts, fm) ==
  IF scans[k].idx = 0 /\ Failed(w)
  THEN /\ mainCatch /\ NoSend(wts, fm)
       /\ UNCHANGED <<wsState, closeCalled, daemonVars>>
  ELSE /\ IF scans[k].idx = 0
          THEN scanStep(k, pendingOf(w.value), 0, wts, fm)
          ELSE scanStep(k, scans[k].pend, scans[k].idx, wts, fm)
       /\ UNCHANGED <<exit, wsState, closeCalled, pairingListener>>

\* approvePending of scan k resumed by the promise w it awaits
scanResume(k, w, wts, fm) ==
  /\ IF scans[k].idx = 0
     THEN IF w.state = "resolved"
          THEN scanStep(k, pendingOf(w.value), 0, wts, fm)
          ELSE scanStep(k, <<>>, 0, wts, fm)
     ELSE scanStep(k, scans[k].pend, scans[k].idx, wts, fm)
  /\ UNCHANGED <<exit, wsState, closeCalled, pairingListener>>

\* the continuations, with no .catch on the approval of pairingListener
ResumeNoCatch(i, wts, fm) ==
  LET w == wts[i] IN
  CASE w.by = "main" /\ pc = "awaitConnect" -> afterConnect(w, wts, fm)
    [] w.by = "main" /\ pc = "awaitConfig" -> afterConfig(w, wts, fm)
    [] w.by = "main" /\ pc = "awaitHealth" -> afterHealth(w, wts, fm)
    [] w.by = "scan" -> scanResume(w.scan, w, wts, fm)
    [] OTHER -> /\ NoSend(wts, fm)
                /\ IF Failed(w) THEN Exit(1, "unhandledRejection")
                   ELSE UNCHANGED <<pc, exit>>
                /\ UNCHANGED <<wsState, closeCalled, daemonVars>>

\* the continuation of whoever awaits request i, settled in this step
Resume(i, wts, fm) ==
  LET w == wts[i] IN
  CASE w.by = "main" /\ pc = "awaitConnect" -> afterConnect(w, wts, fm)
    [] w.by = "main" /\ pc = "awaitConfig" -> afterConfig(w, wts, fm)
    [] w.by = "main" /\ pc = "awaitHealth" -> afterHealth(w, wts, fm)
    [] w.by = "scan" -> scanResume(w.scan, w, wts, fm)
    [] OTHER -> \* .then / .catch of pairingListener: a log line
                /\ NoSend(wts, fm)
                /\ UNCHANGED <<pc, exit, wsState, closeCalled, daemonVars>>

\* a pairing listener that removes itself after its first event
pairingApproveOnce(msg, wts, fm) ==
  /\ SendReq(wts, fm, "device.pair.approve", msg.requestId, "", "", 0,
             ApproveTimeoutMs, "listener", 0)
  /\ pairingListener' = FALSE
  /\ UNCHANGED <<pc, exit, wsState, closeCalled, scans, interval, window>>

\* pairingListener on a device.pair.requested event
pairingApprove(msg, wts, fm) ==
  /\ SendReq(wts, fm, "device.pair.approve", msg.requestId, "", "", 0,
             ApproveTimeoutMs, "listener", 0)
  /\ UNCHANGED <<pc, exit, wsState, closeCalled, daemonVars>>

\* one "message" event: every registered listener, then the continuations
OnMessage(ev) ==
  LET msg == parseWsMessage(ev)
      chal1 == IF chal.listening THEN onMsgEvent(chal, "connect.challenge", ev)
               ELSE chal
      wts1 == [i \in 1..Len(waits) |->
                 IF waits[i].listening THEN onMsgRes(waits[i], sent[i].id, ev)
                 ELSE waits[i]]
      fm1 == [i \in 1..Len(waits) |->
                IF /\ ~firstMatch[i].seen
                   /\ ev.json /\ ev.type = "res" /\ ev.id = sent[i].id
                   /\ waits[i].timer.st # "fired"
                THEN [seen |-> TRUE, ok |-> ev.ok, payload |-> ev.payload,
                      error |-> ev.error]
                ELSE firstMatch[i]]
      woken == {i \in 1..Len(waits) :
                  waits[i].state = "pending" /\ wts1[i].state # "pending"}
  IN
  /\ chal' = chal1
  /\ pairEvents' = IF /\ pc \in {"firstScan", "daemon"}
                      /\ ev.json /\ ev.type = "event"
                      /\ ev.event = "device.pair.requested"
                   THEN Append(pairEvents, ev.requestId) ELSE pairEvents
  /\ chalSeen' = IF /\ chalSeen = ""
                    /\ ev.json /\ ev.type = "event"
                    /\ ev.event = "connect.challenge"
                    /\ chal.timer.st # "fired"
                 THEN ev.nonce ELSE chalSeen
  /\ CASE chal.state = "pending" /\ chal1.state = "resolved"
          /\ pc = "awaitChallenge" ->
            /\ mainGotChallenge(chal1.value.nonce)
            /\ NoSend(wts1, fm1)
            /\ UNCHANGED <<exit, wsState, closeCalled, daemonVars>>
       [] /\ pairingListener /\ msg # Null
          /\ msg.type = "event" /\ msg.event = "device.pair.requested" ->
            /\ pairingApprove(msg, wts1, fm1)
            /\ UNCHANGED <<signedAtMs, payloadParams, payload>>
       [] woken # {} ->
            /\ Resume(CHOOSE i \in woken : TRUE, wts1, fm1)
            /\ UNCHANGED <<signedAtMs, payloadParams, payload>>
       [] OTHER ->
            /\ NoSend(wts1, fm1)
            /\ UNCHANGED <<pc, exit, wsState, closeCalled, daemonVars,
                           signedAtMs, payloadParams, payload>>

\* the gateway delivers a frame
DeliverFrame ==
  /\ Alive /\ wsState \in {"connecting", "open"}
  /\ \E ev \in Frames : OnMessage(ev)
  /\ UNCHANGED <<token, windowMs, reqCap, device, serverPending>>

\* the 15 s timer of challengePromise: before main awaits the promise the
\* rejection has no handler and Node ends the process with code 1
ChallengeTimeout ==
  /\ Alive /\ Due(chal.timer)
  /\ chal' = onTimeout(chal)
  /\ IF pc = "awaitChallenge" THEN mainCatch
     ELSE Exit(1, "unhandledRejection")
  /\ UNCHANGED <<token, windowMs, reqCap, device, wsState, closeCalled, rpcVars,
                 signedAtMs, payloadParams, payload, daemonVars,
                 serverPending, chalSeen, pairEvents>>

\* the timer of waitForRes for request i
ResTimeout(i) ==
  /\ Alive /\ Due(waits[i].timer)
  /\ Resume(i, [waits EXCEPT ![i] = onTimeout(waits[i])], firstMatch)
  /\ UNCHANGED <<token, windowMs, reqCap, device, chal, signedAtMs,
                 payloadParams, payload, serverPending, chalSeen, pairEvents>>

ResTimeouts == \E i \in 1..Len(waits) : ResTimeout(i)

\* the timer armed by setTimeout instead of setInterval: it fires once
IntervalFireOnce ==
  /\ Alive /\ Due(interval)
  /\ startScan(waits, firstMatch)
  /\ interval' = Fire(interval)
  /\ UNCHANGED <<token, windowMs, reqCap, window, pc, exit, device, wsState,
                 closeCalled, chal, signedAtMs, payloadParams, payload,
                 pairingListener, serverPending, chalSeen, pairEvents>>

\* setInterval(approvePending, 30_000) fires
IntervalFire ==
  /\ Alive /\ Due(interval)
  /\ startScan(waits, firstMatch)
  /\ interval' = Armed(ScanIntervalMs)
  /\ UNCHANGED <<token, windowMs, reqCap, window, pc, exit, device, wsState,
                 closeCalled, chal, signedAtMs, payloadParams, payload,
                 pairingListener, serverPending, chalSeen, pairEvents>>

\* window expiry that lets approvals in flight finish first
WindowExpireAwaitsApprovals ==
  /\ Alive /\ Due(window)
  /\ window' = Fire(window)
  /\ IF \E i \in 1..Len(sent) :
          sent[i].method = "device.pair.approve" /\ ~Settled(waits[i])
     THEN UNCHANGED <<pc, exit, wsState, closeCalled, pairingListener>>
     ELSE /\ pairingListener' = FALSE
          /\ closeCalled' = TRUE /\ wsState' = "closed"
          /\ Exit(0, "windowExpired")
  /\ UNCHANGED <<token, windowMs, reqCap, device, rpcVars, chal, signedAtMs,
                 payloadParams, payload, scans, interval, serverPending,
                 chalSeen, pairEvents>>

\* bounded-window mode, expiry of the window: the pairing listener is
\* removed, the channel is closed and the process ends, whatever is in flight
WindowExpire ==
  /\ Alive /\ Due(window)
  /\ window' = Fire(window)
  /\ pairingListener' = FALSE
  /\ closeCalled' = TRUE /\ wsState' = "closed"
  /\ Exit(0, "windowExpired")
  /\ UNCHANGED <<token, windowMs, reqCap, device, rpcVars, chal, signedAtMs,
                 payloadParams, payload, scans, interval, serverPending,
                 chalSeen, pairEvents>>

\* the "error" event of the socket: the listener of main exits with 1
WsError ==
  /\ Alive /\ wsState \in {"connecting", "open"}
  /\ Exit(1, "wsError")
  /\ UNCHANGED <<token, windowMs, reqCap, device, wsState, closeCalled,
                 rpcVars, chal, signedAtMs, payloadParams, payload,
                 daemonVars, serverPending, chalSeen, pairEvents>>

\* the gateway closes the connection without an error
WsClose ==
  /\ Alive /\ wsState = "open"
  /\ wsState' = "closed"
  /\ UNCHANGED <<token, windowMs, reqCap, pc, exit, device, closeCalled,
                 rpcVars, chal, signedAtMs, payloadParams, payload,
                 daemonVars, serverPending, chalSeen, pairEvents>>

\* TickMs pass: no timer is due, some timer runs
Tick ==
  /\ Alive
  /\ ~Due(chal.timer) /\ ~Due(interval) /\ ~Due(window)
  /\ \A i \in 1..Len(waits) : ~Due(waits[i].timer)
  /\ \/ Running(chal.timer) \/ Running(interval) \/ Running(window)
     \/ \E i \in 1..Len(waits) : Running(waits[i].timer)
  /\ chal' = [chal EXCEPT !.timer = Elapse(chal.timer)]
  /\ interval' = Elapse(interval)
  /\ window' = Elapse(window)
  /\ waits' = [i \in 1..Len(waits) |->
                 [waits[i] EXCEPT !.timer = Elapse(waits[i].timer)]]
  /\ UNCHANGED <<token, windowMs, reqCap, pc, exit, device, wsState,
                 closeCalled, reqId, sent, signedAtMs, payloadParams, payload,
                 pairingListener, scans, serverPending, chalSeen, pairEvents,
                 firstMatch>>

Next ==
  \/ Start
  \/ Connect
  \/ WsOpen
  \/ SignDone
  \/ DeliverFrame
  \/ ChallengeTimeout
  \/ ResTimeouts
  \/ IntervalFire
  \/ WsError
  \/ WsClose
  \/ Tick

Spec == Init /\ [][Next]_vars

(* ---- a gateway that answers everything but approvals ---- *)
\* the challenge, and ok:true responses with a payload (scopes granted) to
\* connect, config.get, health and device.pair.list
CalmFrames ==
  {ev \in Frames :
     \/ ev.type = "event" /\ ev.event = "connect.challenge"
     \/ /\ ev.type = "res" /\ ev.ok /\ ev.payload.present
        /\ ev.id \in 1..reqId
        /\ sent[ev.id].method # "device.pair.approve"
        /\ sent[ev.id].method = "connect" => grantedLength(ev.payload) > 0}

InitScan ==
  /\ token = GatewayToken
  /\ pc = "start"
  /\ exit = [done |-> FALSE, code |-> 0, cause |-> ""]
  /\ device = ""
  /\ wsState = "none"
  /\ closeCalled = FALSE
  /\ reqId = 0
  /\ reqCap = MaxScanReqId
  /\ sent = <<>>
  /\ waits = <<>>
  /\ chal = NoChallenge
  /\ signedAtMs = 0
  /\ payloadParams = NoParams
  /\ payload = ""
  /\ pairingListener = FALSE
  /\ scans = <<>>
  /\ interval = NoTimer
  /\ windowMs = 0
  /\ window = NoTimer
  /\ serverPending = {}
  /\ chalSeen = ""
  /\ firstMatch = <<>>
  /\ pairEvents = <<>>

DeliverCalm ==
  /\ Alive /\ wsState \in {"connecting", "open"}
  /\ \E ev \in CalmFrames : OnMessage(ev)
  /\ UNCHANGED <<token, windowMs, reqCap, device, serverPending>>

NextScan ==
  \/ Start
  \/ Connect
  \/ WsOpen
  \/ SignDone
  \/ DeliverCalm
  \/ ChallengeTimeout
  \/ ResTimeouts
  \/ IntervalFire
  \/ Tick

ScanSpec == InitScan /\ [][NextScan]_vars

(* ---- buildDeviceAuthPayload on its own ---- *)
\* arguments of buildDeviceAuthPayload: with and without nonce and token
\* (an absent one is ""), with zero to three scopes
ParamSets ==
  [deviceId : {"dev-a", "dev-b"}, clientId : {"gateway-client"},
   clientMode : {"backend"}, role : {"operator", "node"},
   scopes : {<<>>} \cup {SubSeq(RequestedScopes, 1, n) : n \in 1..3},
   signedAtMs : {0, 1700}, token : {"", GatewayToken}, nonce : {"", "n1"}]

InitPayload ==
  /\ token = GatewayToken
  /\ pc = "start"
  /\ exit = [done |-> FALSE, code |-> 0, cause |-> ""]
  /\ device = ""
  /\ wsState = "none"
  /\ closeCalled = FALSE
  /\ reqId = 0
  /\ reqCap = MaxReqId
  /\ sent = <<>>
  /\ waits = <<>>
  /\ chal = NoChallenge
  /\ signedAtMs = 0
  /\ payloadParams \in ParamSets
  /\ payload = ""
  /\ pairingListener = FALSE
  /\ scans = <<>>
  /\ interval = NoTimer
  /\ windowMs = 0
  /\ window = NoTimer
  /\ serverPending = {}
  /\ chalSeen = ""
  /\ firstMatch = <<>>
  /\ pairEvents = <<>>

\* const payload = buildDeviceAuthPayload(params)
BuildPayload ==
  /\ payload = ""
  /\ payload' = buildDeviceAuthPayload(payloadParams)
  /\ UNCHANGED <<token, reqCap, pairEvents, pc, exit, device, wsState,
                 closeCalled, reqId, sent,
                 waits, chal, signedAtMs, payloadParams, pairingListener,
                 scans, interval, windowMs, window, serverPending, chalSeen,
                 firstMatch>>

PayloadSpec == InitPayload /\ [][BuildPayload]_vars

(* ---- bounded-window mode ---- *)
InitWindow ==
  /\ token = GatewayToken
  /\ pc = "start"
  /\ exit = [done |-> FALSE, code |-> 0, cause |-> ""]
  /\ device = ""
  /\ wsState = "none"
  /\ closeCalled = FALSE
  /\ reqId = 0
  /\ reqCap = MaxReqId
  /\ sent = <<>>
  /\ waits = <<>>
  /\ chal = NoChallenge
  /\ signedAtMs = 0
  /\ payloadParams = NoParams
  /\ payload = ""
  /\ pairingListener = FALSE
  /\ scans = <<>>
  /\ interval = NoTimer
  /\ windowMs = WindowMs
  /\ window = NoTimer
  /\ serverPending = {}
  /\ chalSeen = ""
  /\ firstMatch = <<>>
  /\ pairEvents = <<>>

NextWindow ==
  \/ Start
  \/ Connect
  \/ WsOpen
  \/ SignDone
  \/ DeliverFrame
  \/ ChallengeTimeout
  \/ ResTimeouts
  \/ WindowExpire
  \/ WsError
  \/ WsClose
  \/ Tick

WindowSpec == InitWindow /\ [][NextWindow]_vars

Requests(method) == {i \in 1..Len(sent) : sent[i].method = method}

(* ---- a gateway that keeps the pairing requests it was asked for ---- *)
ApproveSent(r) ==
  \E i \in 1..Len(sent) :
    sent[i].method = "device.pair.approve" /\ sent[i].requestId = r

\* the requestIds the gateway has handed out
Raised == serverPending \cup {r \in PairIds : ApproveSent(r)}

\* the orders in which the gateway may list the set S
Listings(S) ==
  IF S = {} THEN {<<>>}
  ELSE {p \in SeqsUpTo(S, Cardinality(S)) :
          Len(p) = Cardinality(S) /\ {p[j] : j \in 1..Len(p)} = S}

IsOkResponseTo(ev, method) ==
  /\ ev.json /\ ev.type = "res" /\ ev.ok
  /\ ev.id \in 1..reqId /\ sent[ev.id].method = method

\* a browser asks to pair: the gateway keeps the request and announces it
PairRequested ==
  /\ Alive /\ wsState \in {"connecting", "open"}
  /\ \E r \in PairIds \ Raised :
       /\ InOrder(<<r>>, Raised)
       /\ OnMessage(EventFrame("device.pair.requested", "", r))
       /\ serverPending' = serverPending \cup {r}
  /\ UNCHANGED <<token, windowMs, reqCap, device>>

\* the gateway answers a device.pair.list in time with what is pending
GatewayLists ==
  /\ Alive /\ wsState \in {"connecting", "open"}
  /\ \E i \in Requests("device.pair.list") :
       /\ waits[i].state = "pending"
       /\ \E p \in Listings(serverPending) :
            OnMessage(ResFrame(i, TRUE, PendingList(p), ""))
  /\ UNCHANGED <<token, windowMs, reqCap, device, serverPending>>

\* every other frame; an ok:true answer to an approve settles the request
GatewayOthers ==
  /\ Alive /\ wsState \in {"connecting", "open"}
  /\ \E ev \in Frames :
       /\ ~(ev.type = "event" /\ ev.event = "device.pair.requested")
       /\ ~IsOkResponseTo(ev, "device.pair.list")
       /\ OnMessage(ev)
       /\ serverPending' =
            IF IsOkResponseTo(ev, "device.pair.approve")
            THEN serverPending \ {sent[ev.id].requestId}
            ELSE serverPending
  /\ UNCHANGED <<token, windowMs, reqCap, device>>

\* the channel stays open
NextLive ==
  \/ Start
  \/ Connect
  \/ WsOpen
  \/ SignDone
  \/ PairRequested
  \/ GatewayLists
  \/ GatewayOthers
  \/ ChallengeTimeout
  \/ ResTimeouts
  \/ IntervalFire
  \/ Tick

\* time passes, due timers fire, and of the device.pair.list requests the
\* sidecar keeps sending the gateway answers some in time
LiveSpec ==
  /\ Init /\ [][NextLive]_vars
  /\ WF_vars(Tick)
  /\ WF_vars(ChallengeTimeout)
  /\ WF_vars(ResTimeouts)
  /\ WF_vars(IntervalFire)
  /\ SF_vars(GatewayLists)

(* ---- vocabulary of the properties ---- *)
\* the connect response was ok:true and granted at least one scope
Authenticated ==
  \E i \in Requests("connect") :
    waits[i].state = "resolved" /\ grantedLength(waits[i].value) > 0
DaemonRequests ==
  Requests("config.get") \cup Requests("health")
  \cup Requests("device.pair.list") \cup Requests("device.pair.approve")

(***************************************************************************)
(* C1: every path by which the process terminates exits with code 0.       *)
(* The error listener of the socket and the empty-scopes branch call       *)
(* process.exit(1), and a challenge timeout before the open event is an    *)
(* unhandled rejection: the statement fails on the code.                   *)
(***************************************************************************)
C1_ExitCodeAlwaysZero == exit.done => exit.code = 0

(***************************************************************************)
(* C2: a connect.challenge frame delivered after the socket is created and *)
(* within the 15 s window, before or after the open event, is received:    *)
(* challengePromise is resolved with its nonce, main never waits for a     *)
(* challenge that was delivered, and the nonce is the one that is signed   *)
(* and sent in connect.                                                    *)
(***************************************************************************)
C2_ChallengeNeverLost ==
  chalSeen # "" =>
    /\ chal.state = "resolved"
    /\ chal.value.nonce = chalSeen
    /\ pc # "awaitChallenge"
    /\ payload # "" =>
         payload = buildDeviceAuthPayload(authParams(chalSeen, signedAtMs))
    /\ \A i \in Requests("connect") : sent[i].nonce = chalSeen

\* the challenge arrived while the socket was still connecting and was kept
C2_Witness ==
  /\ wsState = "connecting" /\ pc = "awaitOpen"
  /\ chalSeen # "" /\ chal.state = "resolved"

(***************************************************************************)
(* C3: whenever a connect request has been written, a connect.challenge    *)
(* event with a nonce was received before and the open event has fired.    *)
(***************************************************************************)
C3_ConnectAfterChallenge ==
  \A i \in Requests("connect") :
    /\ chal.state = "resolved"
    /\ chalSeen # ""
    /\ chal.value.nonce # ""
    /\ sent[i].nonce = chal.value.nonce
    /\ wsState \in {"open", "closed"}

C3_Witness == Requests("connect") # {}

(***************************************************************************)
(* C4: the outcome of waitForRes(id) is that of the first response frame   *)
(* with that id delivered before the timeout: resolved with its payload    *)
(* when ok, rejected with the server's error when not ok; and a settled    *)
(* promise keeps its outcome in every later step.                          *)
(***************************************************************************)
C4_OutcomeIsFirstMatch ==
  \A i \in 1..Len(waits) :
    LET w == waits[i]
        f == firstMatch[i]
    IN  /\ (f.seen /\ f.ok) => (w.state = "resolved" /\ w.value = f.payload)
        /\ (f.seen /\ ~f.ok) =>
             (w.state = "rejected" /\ w.reason = "rpc" /\ w.error = f.error)

C4_SettledIsStable ==
  \A i \in 1..Len(waits) :
    Settled(waits[i]) =>
      /\ waits'[i].state = waits[i].state
      /\ waits'[i].value = waits[i].value
      /\ waits'[i].reason = waits[i].reason
      /\ waits'[i].error = waits[i].error

C4_FirstMatchDecides == [](C4_OutcomeIsFirstMatch) /\ [][C4_SettledIsStable]_vars

\* a request that timed out and whose ok:true response arrived afterwards
C4_Witness ==
  \E i \in 1..Len(waits) :
    /\ waits[i].reason = "timeout"
    /\ ~waits[i].listening
    /\ ~firstMatch[i].seen

(***************************************************************************)
(* C5: waitForRes and waitForEvent reject with a timeout when no matching  *)
(* frame arrived before the deadline, and are settled by a frame only if a *)
(* frame of the right type with the awaited id or event name arrived.      *)
(***************************************************************************)
C5_TimeoutOrMatch ==
  /\ \A i \in 1..Len(waits) :
       LET w == waits[i]
           f == firstMatch[i]
       IN  /\ (w.timer.st = "fired" /\ ~f.seen) =>
                (w.state = "rejected" /\ w.reason = "timeout")
           /\ (w.state = "resolved" \/ w.reason = "rpc") => f.seen
           /\ ~w.listening => (f.seen \/ w.reason = "timeout")
  /\ (chal.timer.st = "fired" /\ chalSeen = "") =>
       (chal.state = "rejected" /\ chal.reason = "timeout")
  /\ chal.state = "resolved" => chalSeen # ""

\* a response wait that timed out with no response, ending main
C5_Witness ==
  /\ \E i \in 1..Len(waits) :
       waits[i].reason = "timeout" /\ ~firstMatch[i].seen
  /\ exit.done

(***************************************************************************)
(* C6 as stated: if the connect response is ok:true with an empty or       *)
(* absent list of granted scopes, the channel is closed and the process    *)
(* stops without a pairing listener and without any request but connect.   *)
(***************************************************************************)
C6_NoScopesClosesChannel ==
  \A i \in Requests("connect") :
    (waits[i].state = "resolved" /\ grantedLength(waits[i].value) = 0) =>
      /\ exit.done
      /\ closeCalled
      /\ ~pairingListener
      /\ DaemonRequests = {}

(***************************************************************************)
(* C6 amended: if the connect response is ok:true with an empty or absent  *)
(* list of granted scopes, the process stops: the pairing listener is      *)
(* never registered and no request but connect is ever sent; ws.close() is *)
(* called when the response has a payload, and is not when it has none     *)
(* (reading hello.server throws and main's catch ends the process).        *)
(***************************************************************************)
C6_NoScopesNoDaemon ==
  \A i \in Requests("connect") :
    (waits[i].state = "resolved" /\ grantedLength(waits[i].value) = 0) =>
      /\ exit.done
      /\ ~pairingListener
      /\ DaemonRequests = {}
      /\ waits[i].value.present =>
           (closeCalled /\ wsState = "closed" /\ exit.cause = "authDenied")
      /\ ~waits[i].value.present =>
           (~closeCalled /\ exit.cause = "mainCatch")

C6_Witness ==
  \E i \in Requests("connect") :
    /\ waits[i].state = "resolved"
    /\ waits[i].value = Hello(<<>>)
    /\ closeCalled

(***************************************************************************)
(* C7 as stated: once the connect response granted scopes, nothing the     *)
(* server does with later requests ends main before the daemon started.    *)
(***************************************************************************)
C7_DaemonStartsWhateverFollows ==
  (Authenticated /\ exit.done /\ exit.cause = "mainCatch") => pairingListener

(***************************************************************************)
(* C7 amended: after a connect response that grants scopes main sends      *)
(* config.get and then health; the daemon starts (listener registered,     *)
(* first scan issued) in the step that resolves health, and only after     *)
(* config.get resolved with a payload and health resolved; a failed        *)
(* config.get or health ends the process through main's catch without it.  *)
(***************************************************************************)
C7_DaemonStartsAfterConfigAndHealth ==
  /\ Authenticated => Requests("config.get") # {}
  /\ \A i \in Requests("health") :
       waits[i].state = "resolved" =>
         (pairingListener /\ Len(scans) >= 1
          /\ Requests("device.pair.list") # {})
  /\ pairingListener =>
       /\ Authenticated
       /\ \E i \in Requests("config.get") :
            waits[i].state = "resolved" /\ waits[i].value.present
       /\ \E i \in Requests("health") : waits[i].state = "resolved"
  /\ (Authenticated /\ exit.done /\ exit.cause = "mainCatch") =>
       /\ ~pairingListener
       /\ exit.code = 0
       /\ \E i \in Requests("config.get") \cup Requests("health") :
            Failed(waits[i]) \/ ~waits[i].value.present

\* the daemon has started: listener registered, first scan issued
C7_Witness ==
  /\ Authenticated /\ pairingListener /\ Alive
  /\ Len(scans) >= 1 /\ Requests("device.pair.list") # {}

(***************************************************************************)
(* C8: within one scan a failed approval aborts neither the enumeration    *)
(* nor the process: the approve requests of scan k are, in order, the      *)
(* requestIds of the list its device.pair.list returned; the next one is   *)
(* sent as soon as the one before it settled, whatever its outcome; the    *)
(* scan is done exactly when all of them are settled.                      *)
(***************************************************************************)
ScanApproves(k) ==
  SelectSeq([i \in 1..Len(sent) |-> i],
            LAMBDA i : /\ waits[i].by = "scan" /\ waits[i].scan = k
                       /\ sent[i].method = "device.pair.approve")
ScanList(k) ==
  CHOOSE i \in Requests("device.pair.list") :
    waits[i].by = "scan" /\ waits[i].scan = k
ListedBy(k) ==
  IF waits[ScanList(k)].state = "resolved"
  THEN pendingOf(waits[ScanList(k)].value) ELSE <<>>

C8_FailedApprovalDoesNotAbortScan ==
  \A k \in 1..Len(scans) :
    LET a == ScanApproves(k)
        p == ListedBy(k)
        n == Len(a)
    IN  /\ n <= Len(p)
        /\ \A j \in 1..n : sent[a[j]].requestId = p[j]
        /\ \A j \in 1..(n - 1) : Settled(waits[a[j]])
        /\ (Settled(waits[ScanList(k)]) /\ n < Len(p)) =>
             (n >= 1 /\ ~Settled(waits[a[n]]))
        /\ scans[k].done <=>
             /\ Settled(waits[ScanList(k)])
             /\ n = Len(p)
             /\ n > 0 => Settled(waits[a[n]])
        /\ (\E j \in 1..n : Failed(waits[a[j]])) =>
             exit.cause \in {"", "wsError"}

\* the first approval of a scan failed and the second was sent all the same
C8_Witness ==
  \E k \in 1..Len(scans) :
    /\ Len(ScanApproves(k)) = 2
    /\ Failed(waits[ScanApproves(k)[1]])
    /\ Alive

C11_ExpiredWindowIsClosed ==
  window.st = "fired" =>
    /\ ~pairingListener
    /\ closeCalled /\ wsState = "closed"
    /\ exit.done /\ exit.code = 0

C11_NothingSentAfterExpiry == window.st = "fired" => sent' = sent

C12_ListenersDiscard ==
  \A ev \in Malformed :
    /\ chal.listening => onMsgEvent(chal, "connect.challenge", ev) = chal
    /\ \A i \in 1..Len(waits) :
         waits[i].listening => onMsgRes(waits[i], i, ev) = waits[i]

C12_DeliveryChangesNothing ==
  \A ev \in Malformed : OnMessage(ev) => UNCHANGED vars

C12_MalformedFrameDiscarded ==
  [](C12_ListenersDiscard) /\ [][C12_DeliveryChangesNothing]_vars

\* malformed frames may arrive while a response wait and the pairing
\* listener are registered
C12_Witness ==
  /\ Alive /\ wsState = "open" /\ pairingListener
  /\ \E i \in 1..Len(waits) : waits[i].listening /\ ~Settled(waits[i])
  /\ Malformed \subseteq Frames

(***************************************************************************)
(* C13: buildDeviceAuthPayload returns version, deviceId, clientId,        *)
(* clientMode, role, the scopes joined by commas, signedAtMs and token     *)
(* joined by "|"; with a nonce the version is "v2" and the nonce is the    *)
(* ninth and last field; without one the version is "v1" and there are     *)
(* exactly eight fields.                                                   *)
(***************************************************************************)
CommaJoined(scopes) ==
  CASE Len(scopes) = 0 -> ""
    [] Len(scopes) = 1 -> scopes[1]
    [] Len(scopes) = 2 -> scopes[1] \o "," \o scopes[2]
    [] Len(scopes) = 3 -> scopes[1] \o "," \o scopes[2] \o "," \o scopes[3]

EightFields(p, version) ==
  version \o "|" \o p.deviceId \o "|" \o p.clientId \o "|" \o p.clientMode
  \o "|" \o p.role \o "|" \o CommaJoined(p.scopes)
  \o "|" \o ToString(p.signedAtMs) \o "|" \o p.token

C13_AuthPayloadFields ==
  payload # "" =>
    LET p == payloadParams IN
    IF p.nonce # ""
    THEN /\ payload = EightFields(p, "v2") \o "|" \o p.nonce
         /\ Len(authFields(p)) = 9
         /\ authFields(p)[9] = p.nonce
    ELSE /\ payload = EightFields(p, "v1")
         /\ Len(authFields(p)) = 8

\* a v1 payload: no nonce, three scopes
C13_Witness ==
  /\ payload # "" /\ payloadParams.nonce = ""
  /\ Len(payloadParams.scopes) = 3 /\ payloadParams.token # ""

(***************************************************************************)
(* C14: the requests carry strictly increasing ids, the id of the latest   *)
(* being the counter reqId, whoever sent them (main, the pairing listener, *)
(* a scan); so no two requests share an id and a response frame is taken   *)
(* by at most one registered wait.                                         *)
(***************************************************************************)
C14_RequestIdsIncrease ==
  /\ \A i, j \in 1..Len(sent) : i < j => sent[i].id < sent[j].id
  /\ \A i \in 1..Len(sent) : sent[i].id \in 1..reqId
  /\ Len(sent) > 0 => sent[Len(sent)].id = reqId
  /\ \A ev \in Frames :
       Cardinality({i \in 1..Len(waits) :
                      /\ waits[i].listening
                      /\ onMsgRes(waits[i], sent[i].id, ev) # waits[i]}) <= 1

\* requests of the handshake, of the listener and of a scan, the last two
\* awaiting their responses at the same time
C14_Witness ==
  \E i, j \in 1..Len(sent) :
    /\ waits[i].by = "listener" /\ waits[j].by = "scan"
    /\ ~Settled(waits[i]) /\ ~Settled(waits[j])
    /\ Alive /\ wsState = "open"

(***************************************************************************)
(* C15: when the challenge wait or the wait for the connect response has   *)
(* timed out, the process has ended with code 0, the daemon was not        *)
(* started and no request but connect was sent.  The statement fails on    *)
(* the code: when the 15 s of the challenge pass while main still waits    *)
(* for the open event, nothing handles the rejection of challengePromise   *)
(* and the process ends with code 1.                                       *)
(***************************************************************************)
C15_HandshakeTimeoutExitsZero ==
  (\/ chal.reason = "timeout"
   \/ \E i \in Requests("connect") : waits[i].reason = "timeout") =>
    /\ exit.done /\ exit.code = 0
    /\ ~pairingListener
    /\ DaemonRequests = {}

(***************************************************************************)
(* C16: the pairing listener and the scans do not know of each other's     *)
(* approvals, so one requestId may get several approve requests; when a    *)
(* duplicate fails (ok:false or timeout) the failure ends there: the       *)
(* process is not ended by it, the listener stays registered, and the      *)
(* scan that sent it goes on to its next request or finishes.              *)
(***************************************************************************)
IsDuplicate(j) ==
  /\ sent[j].method = "device.pair.approve"
  /\ \E i \in 1..(j - 1) :
       /\ sent[i].method = "device.pair.approve"
       /\ sent[i].requestId = sent[j].requestId

C16_DuplicateFailureSwallowed ==
  \A j \in 1..Len(sent) :
    (IsDuplicate(j) /\ Failed(waits[j])) =>
      /\ exit.cause \in {"", "wsError"}
      /\ pairingListener
      /\ waits[j].by = "scan" =>
           (scans[waits[j].scan].done \/ scans[waits[j].scan].cur > j)

\* the listener approved a request, the scan approved it again, the second
\* approval failed, and the daemon runs on with its interval armed
C16_Witness ==
  \E i, j \in 1..Len(sent) :
    /\ i < j /\ IsDuplicate(j) /\ sent[i].requestId = sent[j].requestId
    /\ waits[i].by = "listener" /\ waits[j].by = "scan"
    /\ Failed(waits[j])
    /\ Alive /\ pairingListener /\ interval.st = "armed"

(***************************************************************************)
(* C17: while the process runs, a wait whose promise is settled (by a      *)
(* frame or by its timeout) has its onMsg listener removed, so the message *)
(* listeners of the waits are no more than the unsettled waits.  The       *)
(* statement fails on the code: the timer callback rejects the promise and *)
(* leaves onMsg registered.                                                *)
(***************************************************************************)
RegisteredWaits ==
  Cardinality({i \in 1..Len(waits) : waits[i].listening})
  + (IF chal.listening THEN 1 ELSE 0)

UnsettledWaits ==
  Cardinality({i \in 1..Len(waits) : ~Settled(waits[i])})
  + (IF chal.state = "pending" THEN 1 ELSE 0)

C17_ListenerRemovedWhenSettled ==
  Alive =>
    /\ \A i \in 1..Len(waits) : Settled(waits[i]) => ~waits[i].listening
    /\ chal.state \in {"resolved", "rejected"} => ~chal.listening
    /\ RegisteredWaits <= UnsettledWaits

(***************************************************************************)
(* C18: the approve requests of the pairing listener are, in order, one    *)
(* for each device.pair.requested frame delivered since the listener was   *)
(* registered, with the requestId of the frame, each sent in the step that *)
(* processes its frame, whatever approvals are still awaiting a response;  *)
(* the listener stays registered.                                          *)
(***************************************************************************)
ListenerApproves ==
  SelectSeq([i \in 1..Len(sent) |-> i],
            LAMBDA i : /\ waits[i].by = "listener"
                       /\ sent[i].method = "device.pair.approve")

C18_OneApprovePerEvent ==
  /\ Len(ListenerApproves) = Len(pairEvents)
  /\ \A n \in 1..Len(pairEvents) :
       sent[ListenerApproves[n]].requestId = pairEvents[n]
  /\ (pc \in {"firstScan", "daemon"} /\ windowMs = 0) => pairingListener

\* a second event approved while the approval of the first awaits its
\* response
C18_Witness ==
  /\ Len(pairEvents) = 2
  /\ ~Settled(waits[ListenerApproves[1]])
  /\ ~Settled(waits[ListenerApproves[2]])

(***************************************************************************)
(* C19 as stated: at most one scan is in progress at any time.             *)
(***************************************************************************)
ScansInProgress == {k \in 1..Len(scans) : ~scans[k].done}

C19_AtMostOneScanInProgress == Cardinality(ScansInProgress) <= 1

(***************************************************************************)
(* C19 amended: a scan awaits one request at a time (it is in progress     *)
(* exactly while one request of its own is unsettled), and the first scan  *)
(* is done before the interval is armed and any other scan starts; the     *)
(* interval starts a scan every 30 s whatever is in progress, so a scan    *)
(* that lasts 30 s or more overlaps with the next one.                     *)
(***************************************************************************)
ScanOutstanding(k) ==
  {i \in 1..Len(waits) :
     waits[i].by = "scan" /\ waits[i].scan = k /\ ~Settled(waits[i])}

C19_ScanAwaitsOneRequest ==
  /\ \A k \in 1..Len(scans) :
       /\ Cardinality(ScanOutstanding(k)) <= 1
       /\ scans[k].done <=> ScanOutstanding(k) = {}
       /\ ~scans[k].done => ScanOutstanding(k) = {scans[k].cur}
  /\ (Len(scans) >= 2 \/ interval.st # "none") => scans[1].done

\* the interval started a scan while the scan before it awaits an approval
C19_Witness ==
  \E k \in 1..Len(scans) :
    /\ k + 1 \in ScansInProgress /\ k \in ScansInProgress
    /\ sent[scans[k].cur].method = "device.pair.approve"
    /\ sent[scans[k + 1].cur].method = "device.pair.list"

(***************************************************************************)
(* C20: at most one connect request is sent; its device block carries the  *)
(* deviceId, the signedAt and the nonce that went into the signed payload, *)
(* in the fields the payload has them (second, seventh, ninth); the nonce  *)
(* is that of the first connect.challenge frame received; the payload is   *)
(* "v2"; and a connect.challenge frame delivered after the first changes   *)
(* nothing.                                                                *)
(***************************************************************************)
C20_DeviceBlockAsSigned ==
  /\ Cardinality(Requests("connect")) <= 1
  /\ \A i \in Requests("connect") :
       LET f == authFields(payloadParams) IN
       /\ payload = buildDeviceAuthPayload(payloadParams)
       /\ Len(f) = 9 /\ f[1] = "v2"
       /\ f[2] = sent[i].deviceId /\ sent[i].deviceId = device
       /\ f[7] = ToString(sent[i].signedAt)
       /\ f[9] = sent[i].nonce
       /\ sent[i].nonce = chalSeen /\ chalSeen # ""

C20_LaterChallengeIgnored ==
  \A n \in Nonces :
    (chalSeen # "" /\ OnMessage(EventFrame("connect.challenge", n, "")))
      => UNCHANGED vars

C20_ConnectConsistent ==
  [](C20_DeviceBlockAsSigned) /\ [][C20_LaterChallengeIgnored]_vars

\* connect was sent, and a challenge with another nonce may still arrive
C20_Witness ==
  /\ Requests("connect") # {} /\ Alive /\ wsState = "open"
  /\ chalSeen = "n1"
  /\ EventFrame("connect.challenge", "n2", "") \in Frames

====
